---------------------------- MODULE Spec2Model ----------------------------
(***************************************************************************)
(* Model of the Python services Analyzer and RefactorEngine                *)
(* (src/A3sist.Core/Agents/Language/Python/Services).                      *)
(*                                                                         *)
(* Source text is a sequence of lexical tokens of a Python subset: names,  *)
(* calls, attribute access, parenthesised expressions, pass, and function  *)
(* definitions in block form or one-line form.  A syntax tree is a record  *)
(* tagged by "kind" (Module, FunctionDef, Pass, Expr, Call, Attribute,     *)
(* Name).  A returned string is a sequence of text chunks.                 *)
(***************************************************************************)
EXTENDS Integers, Sequences, FiniteSets, TLC

VARIABLES
    analyzers,   \* Analyzer.analyzers
    engine,      \* the instance attributes of the RefactorEngine (it sets none)
    input,       \* the source text the collaborator passes to the services
    op,          \* the last operation the collaborator invoked
    result,      \* the string returned by the last analyze_code/refactor_code
    raised,      \* TRUE iff the last call raised to its caller
    issues,      \* local list "issues" of the last analyze_code at its return
    detached,    \* the new_node objects built by the last refactor_code
    lifecycle,   \* the last lifecycle hook the collaborator called
    resubmitted  \* TRUE iff input is the text a refactor_code call returned

vars == <<analyzers, engine, input, op, result, raised, issues, detached, lifecycle,
          resubmitted>>

-----------------------------------------------------------------------------
(* Bounds of the input space *)

MaxArgs == 2        \* arguments per generated call
MaxNest == 2        \* nesting depth of generated calls
MaxBody == 2        \* statements per generated body
MaxDefDepth == 2    \* nesting depth of generated function definitions

-----------------------------------------------------------------------------
(* Syntax trees: the node classes of module ast that the services touch *)

Name(id) == [kind |-> "Name", id |-> id]
Attribute(value, attr) == [kind |-> "Attribute", value |-> value, attr |-> attr]
Call(func, args) == [kind |-> "Call", func |-> func, args |-> args, keywords |-> <<>>]
Expr(value) == [kind |-> "Expr", value |-> value]
Pass == [kind |-> "Pass"]
FunctionDef(name, body) == [kind |-> "FunctionDef", name |-> name, body |-> body]
Module(body) == [kind |-> "Module", body |-> body]

Identifiers == {"print", "logging", "info", "f", "g", "x", "y"}

-----------------------------------------------------------------------------
(* ast.unparse: regenerate source text from a tree *)

RECURSIVE UnparseNode(_), UnparseList(_, _), UnparseArgs(_, _)

UnparseList(nodes, i) ==
    IF i > Len(nodes) THEN <<>>
    ELSE UnparseNode(nodes[i]) \o UnparseList(nodes, i + 1)

UnparseArgs(args, i) ==
    IF i > Len(args) THEN <<>>
    ELSE (IF i > 1 THEN <<",">> ELSE <<>>) \o UnparseNode(args[i])
         \o UnparseArgs(args, i + 1)

UnparseNode(n) ==
    CASE n.kind = "Module" -> UnparseList(n.body, 1)
      [] n.kind = "FunctionDef" ->
            <<"def", n.name, "(", ")", ":", "NEWLINE", "INDENT">>
            \o UnparseList(n.body, 1) \o <<"DEDENT">>
      [] n.kind = "Pass" -> <<"pass", "NEWLINE">>
      [] n.kind = "Expr" -> UnparseNode(n.value) \o <<"NEWLINE">>
      [] n.kind = "Call" ->
            UnparseNode(n.func) \o <<"(">> \o UnparseArgs(n.args, 1) \o <<")">>
      [] n.kind = "Attribute" -> UnparseNode(n.value) \o <<".", n.attr>>
      [] n.kind = "Name" -> <<n.id>>

unparse(tree) == UnparseNode(tree)

-----------------------------------------------------------------------------
(* ast.parse: recursive-descent parser of the token text.  Every parse     *)
(* operator returns [ok, node, pos, msg]; pos is the next unread token.    *)

Tok(t, i) == IF i >= 1 /\ i <= Len(t) THEN t[i] ELSE "ENDMARKER"

Ok(node, pos) == [ok |-> TRUE, node |-> node, pos |-> pos, msg |-> ""]
Fail(pos, msg) == [ok |-> FALSE, node |-> Pass, pos |-> pos, msg |-> msg]

RECURSIVE ParseExpr(_, _), ParseTrailers(_, _, _), ParseArgs(_, _, _),
          NextArg(_, _, _), CallTrailer(_, _, _), ParseStmts(_, _, _),
          NextStmt(_, _, _)

(* r: the parenthesised expression just read; expects the closing ")" *)
CloseParen(t, r) ==
    IF ~r.ok THEN r
    ELSE IF Tok(t, r.pos) = ")" THEN Ok(r.node, r.pos + 1)
    ELSE Fail(r.pos, "invalid syntax")

ParseAtom(t, i) ==
    IF Tok(t, i) \in Identifiers THEN Ok(Name(Tok(t, i)), i + 1)
    ELSE IF Tok(t, i) = "(" THEN CloseParen(t, ParseExpr(t, i + 1))
    ELSE Fail(i, "invalid syntax")

(* r: the argument just read; a "," continues the list (and may end it) *)
NextArg(t, acc, r) ==
    IF ~r.ok THEN r
    ELSE IF Tok(t, r.pos) = "," THEN ParseArgs(t, r.pos + 1, Append(acc, r.node))
    ELSE IF Tok(t, r.pos) = ")" THEN Ok(Append(acc, r.node), r.pos + 1)
    ELSE Fail(r.pos, "invalid syntax. Perhaps you forgot a comma?")

ParseArgs(t, i, acc) ==
    IF Tok(t, i) = ")" THEN Ok(acc, i + 1)
    ELSE NextArg(t, acc, ParseExpr(t, i))

(* r: the argument list just read after callee "node" *)
CallTrailer(t, node, r) ==
    IF ~r.ok THEN r ELSE ParseTrailers(t, r.pos, Call(node, r.node))

ParseTrailers(t, i, node) ==
    IF Tok(t, i) = "." THEN
        IF Tok(t, i + 1) \in Identifiers
        THEN ParseTrailers(t, i + 2, Attribute(node, Tok(t, i + 1)))
        ELSE Fail(i + 1, "invalid syntax")
    ELSE IF Tok(t, i) = "(" THEN CallTrailer(t, node, ParseArgs(t, i + 1, <<>>))
    ELSE Ok(node, i)

Trailers(t, a) == IF ~a.ok THEN a ELSE ParseTrailers(t, a.pos, a.node)

ParseExpr(t, i) == Trailers(t, ParseAtom(t, i))

(* r: the expression of an expression statement; expects the NEWLINE *)
EndExprStmt(t, r) ==
    IF ~r.ok THEN r
    ELSE IF Tok(t, r.pos) = "NEWLINE" THEN Ok(Expr(r.node), r.pos + 1)
    ELSE Fail(r.pos, "invalid syntax")

ParseSimple(t, i) ==
    IF Tok(t, i) = "pass" THEN
        IF Tok(t, i + 1) = "NEWLINE" THEN Ok(Pass, i + 2)
        ELSE Fail(i + 1, "invalid syntax")
    ELSE EndExprStmt(t, ParseExpr(t, i))

(* b: the statements of an indented block; expects the DEDENT *)
EndBlock(t, name, b) ==
    IF ~b.ok THEN b
    ELSE IF Tok(t, b.pos) = "DEDENT" /\ Len(b.node) > 0
    THEN Ok(FunctionDef(name, b.node), b.pos + 1)
    ELSE Fail(b.pos, "invalid syntax")

(* s: the simple statement of a one-line definition *)
OneLineDef(name, s) ==
    IF ~s.ok THEN s ELSE Ok(FunctionDef(name, <<s.node>>), s.pos)

ParseStmt(t, i) ==
    IF Tok(t, i) = "def" THEN
        IF /\ Tok(t, i + 1) \in Identifiers
           /\ Tok(t, i + 2) = "("
           /\ Tok(t, i + 3) = ")"
        THEN IF Tok(t, i + 4) # ":" THEN Fail(i + 4, "expected ':'")
             ELSE IF Tok(t, i + 5) = "NEWLINE" THEN
                 IF Tok(t, i + 6) = "INDENT"
                 THEN EndBlock(t, Tok(t, i + 1), ParseStmts(t, i + 7, <<>>))
                 ELSE Fail(i + 6, "expected an indented block after function definition")
             ELSE OneLineDef(Tok(t, i + 1), ParseSimple(t, i + 5))
        ELSE Fail(i, "invalid syntax")
    ELSE IF Tok(t, i) = "INDENT" THEN Fail(i, "unexpected indent")
    ELSE ParseSimple(t, i)

NextStmt(t, acc, s) ==
    IF ~s.ok THEN s ELSE ParseStmts(t, s.pos, Append(acc, s.node))

ParseStmts(t, i, acc) ==
    IF Tok(t, i) \in {"ENDMARKER", "DEDENT"} THEN Ok(acc, i)
    ELSE NextStmt(t, acc, ParseStmt(t, i))

(* b: the statements of the whole text; every token must have been read *)
EndModule(code, b) ==
    IF ~b.ok THEN b
    ELSE IF b.pos = Len(code) + 1 THEN Ok(Module(b.node), b.pos)
    ELSE Fail(b.pos, "invalid syntax")

(* the tokenizer's count of open parentheses at the end of the text, or   *)
(* -1 once a ")" closes nothing                                            *)
RECURSIVE OpenParens(_, _, _)
OpenParens(t, i, depth) ==
    IF i > Len(t) \/ depth < 0 THEN depth
    ELSE OpenParens(t, i + 1, CASE t[i] = "(" -> depth + 1
                                [] t[i] = ")" -> depth - 1
                                [] OTHER -> depth)

(* inside an open parenthesis the tokenizer yields no layout tokens: the   *)
(* parser has read to the end of the text when only those are left         *)
AtEnd(t, pos) == \A j \in pos..Len(t) : t[j] \in {"NEWLINE", "INDENT", "DEDENT"}

(* the SyntaxError raised: the tokenizer's error where it has one *)
Diagnose(t, r, depth) ==
    IF r.ok \/ depth = 0 THEN r
    ELSE IF depth < 0 THEN Fail(r.pos, "unmatched ')'")
    ELSE IF AtEnd(t, r.pos) THEN Fail(r.pos, "'(' was never closed")
    ELSE r

parse(code) ==
    Diagnose(code, EndModule(code, ParseStmts(code, 1, <<>>)), OpenParens(code, 1, 0))

-----------------------------------------------------------------------------
(* ast.walk: breadth-first traversal driven by a queue.  A queue entry is  *)
(* a node object: its value when it was enqueued, and its place in the     *)
(* tree (a path of steps [f, i]: field f, element i of a list field, or    *)
(* i = 0 for a node-valued field).                                         *)

Step(f, i) == [f |-> f, i |-> i]
Entry(path, node) == [path |-> path, node |-> node]

RECURSIVE ListEntries(_, _, _, _)
ListEntries(nodes, f, p, i) ==
    IF i > Len(nodes) THEN <<>>
    ELSE <<Entry(Append(p, Step(f, i)), nodes[i])>> \o ListEntries(nodes, f, p, i + 1)

(* ast.iter_child_nodes: the node-valued fields in _fields order *)
iter_child_nodes(node, p) ==
    CASE node.kind \in {"Module", "FunctionDef"} -> ListEntries(node.body, "body", p, 1)
      [] node.kind = "Expr" -> <<Entry(Append(p, Step("value", 0)), node.value)>>
      [] node.kind = "Call" ->
            <<Entry(Append(p, Step("func", 0)), node.func)>>
            \o ListEntries(node.args, "args", p, 1)
            \o ListEntries(node.keywords, "keywords", p, 1)
      [] node.kind = "Attribute" -> <<Entry(Append(p, Step("value", 0)), node.value)>>
      [] OTHER -> <<>>

(* todo = deque([tree]) *)
WalkStart(tree) == <<Entry(<<>>, tree)>>

(* node = todo.popleft(); todo.extend(iter_child_nodes(node)) *)
WalkRest(todo) == Tail(todo) \o iter_child_nodes(Head(todo).node, Head(todo).path)

ReplaceStep(tree, s, sub) ==
    IF s.i = 0 THEN [tree EXCEPT ![s.f] = sub]
    ELSE [tree EXCEPT ![s.f] = [@ EXCEPT ![s.i] = sub]]

HasStep(tree, s) ==
    /\ s.f \in DOMAIN tree
    /\ s.i = 0 \/ s.i <= Len(tree[s.f])

ChildAt(tree, s) == IF s.i = 0 THEN tree[s.f] ELSE tree[s.f][s.i]

(* the tree with the object at path p replaced by "new" *)
RECURSIVE ReplaceAt(_, _, _)
ReplaceAt(tree, p, new) ==
    IF p = <<>> THEN new
    ELSE IF ~HasStep(tree, Head(p)) THEN tree
    ELSE ReplaceStep(tree, Head(p), ReplaceAt(ChildAt(tree, Head(p)), Tail(p), new))

-----------------------------------------------------------------------------
(* Strings returned to the caller *)

RECURSIVE Join(_, _, _)
Join(sep, lines, i) ==
    IF i > Len(lines) THEN <<>>
    ELSE (IF i > 1 THEN <<sep>> ELSE <<>>) \o lines[i] \o Join(sep, lines, i + 1)

None == <<"None">>

(* the exception classes of the calls made in the try blocks; all derive   *)
(* from Exception                                                          *)
ExceptionClasses == {"SyntaxError", "ValueError", "RecursionError"}

-----------------------------------------------------------------------------
(* class Analyzer *)

Analyzer_init == [analyzers |-> <<>>]

(* an initialize that registers an analyzer on every call *)
Analyzer_initialize_registers(self) ==
    [self EXCEPT !.analyzers = Append(@, "EmptyFunctionRule")]

Analyzer_initialize(self) == self

Analyzer_shutdown(self) == self

(* a test that takes a body of pass statements for an empty one *)
IsPassOnlyFunctionDef(node) ==
    node.kind = "FunctionDef" /\ \A i \in 1..Len(node.body) : node.body[i].kind = "Pass"

(* isinstance(node, ast.FunctionDef) and not node.body *)
IsEmptyFunctionDef(node) == node.kind = "FunctionDef" /\ node.body = <<>>

(* the body of the for loop, for one node *)
AnalyzeNode(node, found) ==
    IF IsEmptyFunctionDef(node)
    THEN Append(found, <<"Empty function found: ", node.name>>)
    ELSE found

RECURSIVE AnalyzeLoop(_, _)
AnalyzeLoop(todo, found) ==
    IF todo = <<>> THEN found
    ELSE AnalyzeLoop(WalkRest(todo), AnalyzeNode(Head(todo).node, found))

(* return "\n".join(issues) if issues else "No issues found" *)
AnalyzeReturn(found) ==
    [exc |-> "", msg |-> "", issues |-> found,
     value |-> IF found # <<>> THEN Join("\n", found, 1) ELSE <<"No issues found">>]

(* the try block, p being the outcome of ast.parse(code) *)
AnalyzeTry(p) ==
    IF ~p.ok
    THEN [exc |-> "SyntaxError", msg |-> p.msg, issues |-> <<>>, value |-> None]
    ELSE AnalyzeReturn(AnalyzeLoop(WalkStart(p.node), <<>>))

(* an except clause that names one class only *)
AnalyzerCatchesValueError(exc) == exc = "ValueError"

(* except Exception as ex *)
AnalyzerCatches(exc) == exc \in ExceptionClasses

(* the string the call ends with, r being the outcome of the try block *)
AnalyzeString(r) ==
    IF r.exc = "" THEN r.value
    ELSE IF AnalyzerCatches(r.exc) THEN <<"Analysis error: ", r.msg>>
    ELSE None

(* an analysis that keeps its report on the instance and reuses it *)
AnalyzeExceptShared(self, r) ==
    [self |-> [self EXCEPT !.analyzers = Append(@, AnalyzeString(r))],
     issues |-> r.issues,
     raised |-> r.exc # "" /\ ~AnalyzerCatches(r.exc),
     result |-> IF self.analyzers # <<>> THEN self.analyzers[1] ELSE AnalyzeString(r)]

(* the except clause, r being the outcome of the try block *)
AnalyzeExcept(self, r) ==
    [self |-> self,
     issues |-> r.issues,
     raised |-> r.exc # "" /\ ~AnalyzerCatches(r.exc),
     result |-> AnalyzeString(r)]

analyze_code(self, code) == AnalyzeExcept(self, AnalyzeTry(parse(code)))

-----------------------------------------------------------------------------
(* class RefactorEngine *)

RefactorEngine_init == <<>>

RefactorEngine_initialize(self) == self

RefactorEngine_shutdown(self) == self

(* isinstance(node, ast.Call) and isinstance(node.func, ast.Name)          *)
(* and node.func.id == 'print'                                             *)
IsPrintCall(node) ==
    node.kind = "Call" /\ node.func.kind = "Name" /\ node.func.id = "print"

LoggingInfo == Attribute(Name("logging"), "info")

(* ast.NodeTransformer().visit: the base class's generic_visit, which      *)
(* stores each visited child back in its field and rebuilds each list      *)
(* field in place from the visited elements                                *)
RECURSIVE Visit(_), VisitList(_, _)
VisitList(nodes, i) ==
    IF i > Len(nodes) THEN <<>>
    ELSE <<Visit(nodes[i])>> \o VisitList(nodes, i + 1)

Visit(n) ==
    CASE n.kind = "Call" ->
            [n EXCEPT !.func = Visit(n.func), !.args = VisitList(n.args, 1),
                      !.keywords = VisitList(n.keywords, 1)]
      [] n.kind = "Attribute" -> [n EXCEPT !.value = Visit(n.value)]
      [] n.kind = "Expr" -> [n EXCEPT !.value = Visit(n.value)]
      [] n.kind \in {"Module", "FunctionDef"} -> [n EXCEPT !.body = VisitList(n.body, 1)]
      [] OTHER -> n

(* new_node = ast.Call(func=logging.info, args=node.args, keywords=[]),    *)
(* then copy_location and fix_missing_locations (position attributes       *)
(* only), then NodeTransformer().visit(new_node)                           *)
NewNode(node) == Visit(Call(LoggingInfo, node.args))

(* a body of the if that puts new_node where the print call was *)
RewriteStepReattach(tree, e, new_node) ==
    [tree |-> ReplaceAt(tree, e.path, new_node), new_node |-> new_node]

(* a body of the if that reattaches a call taking the print call itself *)
RewriteStepWrap(tree, e, new_node) ==
    [tree |-> ReplaceAt(tree, e.path, [new_node EXCEPT !.args = <<e.node>>]),
     new_node |-> [new_node EXCEPT !.args = <<e.node>>]]

(* The body of the if, for the matched queue entry e.  new_node shares     *)
(* the list object node.args, so the visit's write of the visited          *)
(* arguments into new_node.args is a write to node.args.  Nothing assigns  *)
(* new_node to a field of the tree.                                        *)
RewriteStep(tree, e, new_node) ==
    [tree |-> ReplaceAt(tree, e.path, [e.node EXCEPT !.args = new_node.args]),
     new_node |-> new_node]

RECURSIVE RefactorLoop(_, _, _), RefactorNext(_, _, _)

RefactorNext(st, todo, built) ==
    RefactorLoop(st.tree, todo, Append(built, st.new_node))

(* for node in ast.walk(tree): if ...: ... *)
RefactorLoop(tree, todo, built) ==
    IF todo = <<>> THEN [tree |-> tree, detached |-> built]
    ELSE IF IsPrintCall(Head(todo).node)
    THEN RefactorNext(RewriteStep(tree, Head(todo), NewNode(Head(todo).node)),
                      WalkRest(todo), built)
    ELSE RefactorLoop(tree, WalkRest(todo), built)

(* a return that regenerates the first statement only *)
RefactorReturnFirstStatement(lp) ==
    [exc |-> "", msg |-> "", detached |-> lp.detached,
     value |-> IF lp.tree.body = <<>> THEN <<>> ELSE unparse(lp.tree.body[1])]

(* return ast.unparse(tree) *)
RefactorReturn(lp) ==
    [exc |-> "", msg |-> "", detached |-> lp.detached, value |-> unparse(lp.tree)]

(* the try block, p being the outcome of ast.parse(code) *)
RefactorTry(p) ==
    IF ~p.ok
    THEN [exc |-> "SyntaxError", msg |-> p.msg, detached |-> <<>>, value |-> None]
    ELSE RefactorReturn(RefactorLoop(p.node, WalkStart(p.node), <<>>))

(* an except clause that names one class only *)
RefactorEngineCatchesValueError(exc) == exc = "ValueError"

(* except Exception as ex *)
RefactorEngineCatches(exc) == exc \in ExceptionClasses

(* the except clause, r being the outcome of the try block *)
RefactorExcept(self, r) ==
    [self |-> self,
     detached |-> r.detached,
     raised |-> r.exc # "" /\ ~RefactorEngineCatches(r.exc),
     result |-> IF r.exc = "" THEN r.value
                ELSE IF RefactorEngineCatches(r.exc) THEN <<"Refactoring error: ", r.msg>>
                ELSE None]

refactor_code(self, code) == RefactorExcept(self, RefactorTry(parse(code)))

-----------------------------------------------------------------------------
(* The source texts the collaborator submits: the trees of a bounded       *)
(* family, each written in the layout ast.unparse produces and in a second *)
(* layout (one-line definitions, parenthesised expression statements,      *)
(* trailing commas), and damaged texts.                                    *)

Atoms == {Name("x"), Name("y")}
Callees == {Name("print"), Name("f"), LoggingInfo}
FuncNames == {"f", "g"}

SeqsUpTo(S, lo, hi) == UNION {[1..n -> S] : n \in lo..hi}

FlatCalls == {Call(c, a) : c \in Callees, a \in SeqsUpTo(Atoms, 0, MaxArgs)}

RECURSIVE Calls(_)
Calls(d) ==
    IF d <= 1 THEN FlatCalls
    ELSE Calls(d - 1) \cup {Call(c, <<e>>) : c \in Callees, e \in Calls(d - 1)}

SimpleStmts == {Pass, Expr(Call(Name("print"), <<Name("x")>>))}
SimpleBodies == SeqsUpTo(SimpleStmts, 1, MaxBody)

(* bodies that hold one nested definition *)
Wrapped(S) == {<<e>> : e \in S} \cup {<<e, Pass>> : e \in S} \cup {<<Pass, e>> : e \in S}

RECURSIVE Defs(_)
Defs(d) ==
    IF d <= 1 THEN {FunctionDef(n, b) : n \in FuncNames, b \in SimpleBodies}
    ELSE {FunctionDef(n, b) : n \in FuncNames, b \in SimpleBodies \cup Wrapped(Defs(d - 1))}

TopStmts == SimpleStmts \cup {FunctionDef(n, <<s>>) : n \in FuncNames, s \in SimpleStmts}

Trees ==
    {Module(<<Expr(e)>>) : e \in Atoms \cup Calls(MaxNest)}
    \cup {Module(<<e>>) : e \in Defs(MaxDefDepth)}
    \cup {Module(b) : b \in SeqsUpTo(TopStmts, 0, MaxBody)}

RECURSIVE Layout2(_), Layout2List(_, _), Layout2Args(_, _)
Layout2List(nodes, i) ==
    IF i > Len(nodes) THEN <<>>
    ELSE Layout2(nodes[i]) \o Layout2List(nodes, i + 1)

Layout2Args(args, i) ==
    IF i > Len(args) THEN <<>>
    ELSE Layout2(args[i]) \o <<",">> \o Layout2Args(args, i + 1)

Layout2(n) ==
    CASE n.kind = "Module" -> Layout2List(n.body, 1)
      [] n.kind = "FunctionDef" ->
            IF Len(n.body) = 1 /\ n.body[1].kind # "FunctionDef"
            THEN <<"def", n.name, "(", ")", ":">> \o Layout2(n.body[1])
            ELSE <<"def", n.name, "(", ")", ":", "NEWLINE", "INDENT">>
                 \o Layout2List(n.body, 1) \o <<"DEDENT">>
      [] n.kind = "Pass" -> <<"pass", "NEWLINE">>
      [] n.kind = "Expr" -> <<"(">> \o Layout2(n.value) \o <<")", "NEWLINE">>
      [] n.kind = "Call" ->
            Layout2(n.func) \o <<"(">> \o Layout2Args(n.args, 1) \o <<")">>
      [] n.kind = "Attribute" -> Layout2(n.value) \o <<".", n.attr>>
      [] n.kind = "Name" -> <<n.id>>

DropToken(t, i) == SubSeq(t, 1, i - 1) \o SubSeq(t, i + 1, Len(t))

IsDeletable(tok) == tok \in {"def", "(", ")", ",", ":", "."}
IsNoIndent(tok) == tok \notin {"INDENT", "DEDENT"}

DamagedBase ==
    {unparse(Module(<<e>>)) : e \in TopStmts}
    \cup {unparse(Module(<<Expr(Call(c, <<Name("x"), Name("y")>>))>>)) : c \in Callees}

(* a keyword or punctuation token deleted; a block written without its     *)
(* indentation; a text that starts indented                                *)
Damaged ==
    UNION {{DropToken(t, i) : i \in {j \in 1..Len(t) : IsDeletable(t[j])}} : t \in DamagedBase}
    \cup {SelectSeq(t, IsNoIndent) : t \in DamagedBase}
    \cup {<<"INDENT">> \o t \o <<"DEDENT">> : t \in DamagedBase}

Sources == {unparse(t) : t \in Trees} \cup {Layout2(t) : t \in Trees} \cup Damaged

-----------------------------------------------------------------------------
(* The collaborator: constructs both services, then calls their operations *)
(* in any order on one source text, and may feed a refactoring result back *)
(* in as the next source text.  No operation awaits, so a call runs to     *)
(* completion before the next one starts.                                  *)

Init ==
    /\ analyzers = Analyzer_init.analyzers
    /\ engine = RefactorEngine_init
    /\ input \in Sources
    /\ op = "construct"
    /\ result = None
    /\ raised = FALSE
    /\ issues = <<>>
    /\ detached = <<>>
    /\ lifecycle = "none"
    /\ resubmitted = FALSE

Self == [analyzers |-> analyzers]

(* a lifecycle hook returned, leaving the two instances as given *)
Hook(name, analyzer2, engine2) ==
    /\ analyzers' = analyzer2.analyzers
    /\ engine' = engine2
    /\ op' = name
    /\ lifecycle' = name
    /\ result' = None
    /\ raised' = FALSE
    /\ issues' = <<>>
    /\ detached' = <<>>
    /\ UNCHANGED <<input, resubmitted>>

AnalyzerInitialize == Hook("Analyzer.initialize", Analyzer_initialize(Self), engine)

AnalyzerShutdown == Hook("Analyzer.shutdown", Analyzer_shutdown(Self), engine)

RefactorEngineInitialize ==
    Hook("RefactorEngine.initialize", Self, RefactorEngine_initialize(engine))

RefactorEngineShutdown ==
    Hook("RefactorEngine.shutdown", Self, RefactorEngine_shutdown(engine))

(* analyze_code returned r *)
AnalyzeReturned(r) ==
    /\ analyzers' = r.self.analyzers
    /\ op' = "Analyzer.analyze_code"
    /\ result' = r.result
    /\ raised' = r.raised
    /\ issues' = r.issues
    /\ detached' = <<>>
    /\ UNCHANGED <<engine, input, lifecycle, resubmitted>>

AnalyzeCode == AnalyzeReturned(analyze_code(Self, input))

(* refactor_code returned r *)
RefactorReturned(r) ==
    /\ engine' = r.self
    /\ op' = "RefactorEngine.refactor_code"
    /\ result' = r.result
    /\ raised' = r.raised
    /\ issues' = <<>>
    /\ detached' = r.detached
    /\ UNCHANGED <<analyzers, input, lifecycle, resubmitted>>

RefactorCode == RefactorReturned(refactor_code(engine, input))

(* the collaborator takes the text refactor_code returned as its next input *)
Resubmit ==
    /\ op = "RefactorEngine.refactor_code"
    /\ ~raised
    /\ input' = result
    /\ resubmitted' = TRUE
    /\ op' = "resubmit"
    /\ UNCHANGED <<analyzers, engine, result, raised, issues, detached, lifecycle>>

Next ==
    \/ AnalyzerInitialize
    \/ AnalyzerShutdown
    \/ RefactorEngineInitialize
    \/ RefactorEngineShutdown
    \/ AnalyzeCode
    \/ RefactorCode
    \/ Resubmit

Spec == Init /\ [][Next]_vars

-----------------------------------------------------------------------------
(* Vocabulary of the properties *)

Valid(code) == parse(code).ok
TreeOf(code) == parse(code).node

StartsWith(text, chunk) == Len(text) >= 1 /\ text[1] = chunk

Analyzed == op = "Analyzer.analyze_code"
Refactored == op = "RefactorEngine.refactor_code"

(* the nodes of a tree in document order (pre-order) *)
RECURSIVE PreOrder(_), PreOrderList(_, _)
PreOrderList(entries, i) ==
    IF i > Len(entries) THEN <<>>
    ELSE PreOrder(entries[i].node) \o PreOrderList(entries, i + 1)

PreOrder(n) == <<n>> \o PreOrderList(iter_child_nodes(n, <<>>), 1)

(* the nodes of a tree in the order ast.walk yields them *)
RECURSIVE WalkOrder(_)
WalkOrder(todo) ==
    IF todo = <<>> THEN <<>>
    ELSE <<Head(todo).node>> \o WalkOrder(WalkRest(todo))

IsLoggingInfoCall(node) == node.kind = "Call" /\ node.func = LoggingInfo
IsFunctionDef(node) == node.kind = "FunctionDef"
HasEmptyBodyList(node) == node.kind = "FunctionDef" /\ Len(node.body) = 0

HasPrintCall(tree) == SelectSeq(PreOrder(tree), IsPrintCall) # <<>>
HasLoggingInfoCall(tree) == SelectSeq(PreOrder(tree), IsLoggingInfoCall) # <<>>

(* an empty function as source text can hold one: a body of pass only *)
IsEmptyFunction(node) ==
    node.kind = "FunctionDef" /\ \A i \in 1..Len(node.body) : node.body[i].kind = "Pass"

EmptyFunctions(tree) == SelectSeq(PreOrder(tree), IsEmptyFunction)

(* the tree with every call of the bare name print made a call of          *)
(* logging.info on the same arguments                                      *)
RECURSIVE Rewritten(_), RewrittenList(_, _)
RewrittenList(nodes, i) ==
    IF i > Len(nodes) THEN <<>>
    ELSE <<Rewritten(nodes[i])>> \o RewrittenList(nodes, i + 1)

Rewritten(n) ==
    CASE n.kind = "Call" ->
            [n EXCEPT !.func = IF IsPrintCall(n) THEN LoggingInfo ELSE Rewritten(n.func),
                      !.args = RewrittenList(n.args, 1)]
      [] n.kind = "Attribute" -> [n EXCEPT !.value = Rewritten(n.value)]
      [] n.kind = "Expr" -> [n EXCEPT !.value = Rewritten(n.value)]
      [] n.kind \in {"Module", "FunctionDef"} -> [n EXCEPT !.body = RewrittenList(n.body, 1)]
      [] OTHER -> n

FindingLine(node) == <<"Empty function found: ", node.name>>

Lines(nodes) == [i \in 1..Len(nodes) |-> FindingLine(nodes[i])]

Replacement(node) == Call(LoggingInfo, node.args)

Replacements(nodes) == [i \in 1..Len(nodes) |-> Replacement(nodes[i])]

-----------------------------------------------------------------------------
(* C1: after refactor_code on a valid source that holds a call of the bare *)
(* name print, the returned text parses to the input's tree with every     *)
(* such call replaced by a call of logging.info on the same arguments.     *)
C1_PrintBecomesLoggingInfo ==
    (Refactored /\ Valid(input) /\ HasPrintCall(TreeOf(input)))
    => /\ ~raised
       /\ Valid(result)
       /\ TreeOf(result) = Rewritten(TreeOf(input))

(* C2: analyze_code on an invalid source does not raise; it returns        *)
(* "Analysis error: " followed by the parser's message, and no findings.   *)
C2_InvalidSourceReported ==
    (Analyzed /\ ~Valid(input))
    => /\ ~raised
       /\ result = <<"Analysis error: ", parse(input).msg>>
       /\ issues = <<>>

C2_Witness ==
    /\ Analyzed
    /\ ~Valid(input)
    /\ result = <<"Analysis error: ", "'(' was never closed">>

(* C3: analyze_code on a valid source that holds empty functions returns   *)
(* one line "Empty function found: <name>" per empty function, in          *)
(* document order, joined by newlines.                                     *)
C3_EmptyFunctionsReported ==
    (Analyzed /\ Valid(input) /\ EmptyFunctions(TreeOf(input)) # <<>>)
    => result = Join("\n", Lines(EmptyFunctions(TreeOf(input))), 1)

(* C4: analyze_code on a valid source whose tree has no function           *)
(* definition with an empty body list returns "No issues found", and any   *)
(* call that returns "No issues found" has an empty list of findings.      *)
C4_NoIssuesFound ==
    Analyzed
    => /\ (Valid(input) /\ SelectSeq(PreOrder(TreeOf(input)), HasEmptyBodyList) = <<>>)
          => result = <<"No issues found">>
       /\ result = <<"No issues found">> => (issues = <<>> /\ Valid(input))

C4_Witness ==
    /\ Analyzed
    /\ Valid(input)
    /\ Len(SelectSeq(PreOrder(TreeOf(input)), IsFunctionDef)) >= 2
    /\ result = <<"No issues found">>

(* C5: refactor_code applied to the text a refactor_code call returned    *)
(* for a valid source (a text that is no error report) returns that text   *)
(* unchanged.                                                              *)
C5_Idempotent ==
    (Refactored /\ resubmitted /\ ~StartsWith(input, "Refactoring error: "))
    => (~raised /\ result = input)

C5_Witness ==
    /\ Refactored
    /\ resubmitted
    /\ Valid(input)
    /\ HasLoggingInfoCall(TreeOf(input))
    /\ result = input

(* C6: after refactor_code on a valid source with no call of the bare      *)
(* name print, the returned text parses to the tree of the input.          *)
C6_RoundTrip ==
    (Refactored /\ Valid(input) /\ ~HasPrintCall(TreeOf(input)))
    => /\ ~raised
       /\ Valid(result)
       /\ TreeOf(result) = TreeOf(input)

C6_Witness ==
    /\ Refactored
    /\ Valid(input)
    /\ ~HasPrintCall(TreeOf(input))
    /\ HasLoggingInfoCall(TreeOf(input))
    /\ result # input
    /\ TreeOf(result) = TreeOf(input)

(* C7: refactor_code never raises; when the call fails it returns          *)
(* "Refactoring error: " followed by the message and no regenerated text,  *)
(* and it returns that string only when the call failed.                   *)
C7_RefactorNeverRaises ==
    Refactored
    => /\ ~raised
       /\ ~Valid(input) => result = <<"Refactoring error: ", parse(input).msg>>
       /\ Valid(input) => ~StartsWith(result, "Refactoring error: ")

C7_Witness ==
    /\ Refactored
    /\ ~Valid(input)
    /\ result = <<"Refactoring error: ", "expected an indented block after function definition">>

(* C8: every operation, in any order (hooks repeated, shutdown first,      *)
(* analysis or refactoring after shutdown or with no initialize), returns  *)
(* without raising and leaves the fields of both services as constructed.  *)
C8_LifecycleNoOps ==
    /\ ~raised
    /\ analyzers = Analyzer_init.analyzers
    /\ engine = RefactorEngine_init

C8_Witness ==
    /\ Analyzed
    /\ lifecycle = "Analyzer.shutdown"
    /\ result # None
    /\ analyzers = <<>>

=============================================================================
